---- MODULE Spec2Model ----
(***************************************************************************)
(* Model of the File entity of ptmd (src/ptmd/database/models/file.py):    *)
(* its shipment life cycle (ship_samples, shipment_was_received, remove),  *)
(* the date validation both transitions share, and the storage session    *)
(* the transitions commit to.                                              *)
(*                                                                         *)
(* Dates.  A date string 'YYYY-MM-DD' is represented by its day number d   *)
(* (the day of January 2024: 10 is '2024-01-10').  A datetime is a number  *)
(* of clock ticks, TicksPerDay of them to a day, so that midnight of day d *)
(* is d * TicksPerDay and a clock reading during day d lies in             *)
(* d * TicksPerDay .. d * TicksPerDay + TicksPerDay - 1.                   *)
(***************************************************************************)
EXTENDS Integers, FiniteSets, Sequences, TLC

\* ------------------------------------------------------------------ bounds
\* Days the constructor and the callers can name: '2024-01-01' .. MaxDay.
MaxDay == 2
\* Resolution of datetime.now() within one calendar day.
TicksPerDay == 2

\* ------------------------------------------------------- program constants
\* None, as the value of the nullable ship_date / receive_date columns.
NoDate == -1
\* get_current_user() returning None.
NoUser == 0

Days == 1..MaxDay
UserIds == {1, 2, 3}
Callers == UserIds \cup {NoUser}

\* User.role of each user: user 3 is the admin, 1 and 2 are ordinary users.
Role(user) == IF user = 3 THEN "admin" ELSE "user"
Admins == {user \in UserIds : Role(user) = "admin"}
\* The users a file is authored by: an ordinary user or the admin (user 2 is
\* the ordinary user who authored nothing).
Authors == {1, 3}

\* datetime.strptime(s, '%Y-%m-%d'): midnight of the day the string names.
Strptime(s) == s * TicksPerDay
\* datetime.strftime('%Y-%m-%d'): the day of a datetime, its time of day lost.
Strftime(t) == t \div TicksPerDay

\* Readings of datetime.now() on the days of `days`.  The wall clock is an
\* input of each call that reads it: successive readings are not assumed to
\* be ordered (local time can be set back).
ClockOn(days) == {Strptime(d) + k : d \in days, k \in 0..(TicksPerDay - 1)}
Times == ClockOn(Days)

\* The `at` argument: None, a well-formed date string or a string strptime
\* cannot parse.
AtNone == [kind |-> "none", day |-> 0]
\* In the record of a call: the call never looked at its `at` argument.
AtUnread == [kind |-> "unread", day |-> 0]
AtBad == [kind |-> "bad", day |-> 0]
AtDate(d) == [kind |-> "date", day |-> d]
AtInputs == {AtNone, AtBad} \cup {AtDate(d) : d \in Days}
\* Python truthiness of `at` in `... if at else datetime.now()`.
Truthy(at) == at.kind # "none"

VARIABLES
    start_date,     \* File.start_date
    end_date,       \* File.end_date
    author_id,      \* File.author_id
    validated,      \* File.validated: "No", "success" or "failed"
    shipped,        \* File.shipped
    received,       \* File.received
    ship_date,      \* File.ship_date (NoDate: None)
    receive_date,   \* File.receive_date (NoDate: None)
    stored,         \* the file's row as last committed to storage
    last,           \* the last call on the file and how it ended
    requests,       \* the ship calls in flight on the file, by request
    applied,        \* the last call of a function of the spreadsheet
                    \* modules: its input and what it gave
    connector       \* class GoogleDriveConnector: its class attributes and
                    \* the calls made on it so far

entity == <<validated, shipped, received, ship_date, receive_date>>
\* What the calls on one File leave alone.
outside == <<requests, applied, connector>>
vars == <<start_date, end_date, author_id, validated, shipped, received,
          ship_date, receive_date, stored, last, requests, applied,
          connector>>

\* No request in flight; no spreadsheet function called yet.
NoRequests == <<>>
NotApplied == [fn |-> "none"]

\* class GoogleDriveConnector as the module is imported: instance_ = None,
\* no __google_auth and no google_drive yet; no object made, no
\* construction, no connect() and no refresh_connection() run, no
\* GoogleDrive handle made.
NoInstance == 0
NoDrive == 0
NoConnector ==
    [instance_ |-> NoInstance, google_auth |-> FALSE, google_drive |-> NoDrive,
     objects |-> 0, constructions |-> 0, connects |-> 0, refreshes |-> 0,
     handles |-> 0]

\* The row a successful session.commit() writes: the entity as the handler
\* leaves it.
Row(v, s, r, sd, rd) ==
    [exists |-> TRUE, validated |-> v, shipped |-> s, received |-> r,
     ship_date |-> sd, receive_date |-> rd]

\* What a call did: the operation, the caller, the `at` argument it gave
\* __validate_time (AtUnread when the call ended before that), the clock
\* reading it took (NoDate when it took none), what the drive call did
\* (remove only) and how the call ended ("ok" or the error raised).
Call(op, user, at, now, drive, outcome) ==
    [op |-> op, user |-> user, at |-> at, now |-> now, drive |-> drive,
     outcome |-> outcome]

\* The result of a call's guards: the error raised ("none": they all pass),
\* the validated datetime, and the `at` and the clock reading the guards read.
Rejected(err, at, now) == [err |-> err, value |-> NoDate, at |-> at, now |-> now]
Accepted(value, at, now) == [err |-> "none", value |-> value, at |-> at, now |-> now]

\* The error kinds of the specification's taxonomy, by the error raised.
IsPermissionDenied(o) == o = "PermissionError"
IsInvalidState(o) == o \in {"NotValidated", "AlreadyShipped", "NotShipped"}
IsOrderingViolation(o) == o \in {"BeforeStart", "BeforeEnd", "BeforeShipped"}
IsValueError(o) ==
    IsInvalidState(o) \/ IsOrderingViolation(o) \/ o = "ParseError"
IsGuardFailure(o) == IsPermissionDenied(o) \/ IsValueError(o)

\* ------------------------------------------------------------ construction
\* File.__init__ followed by the insert: the column defaults apply.
Init ==
    /\ start_date \in {Strptime(d) : d \in Days}
    /\ end_date \in {Strptime(d) : d \in Days}
    /\ author_id \in Authors
    /\ validated = "No"
    /\ shipped = FALSE
    /\ received = FALSE
    /\ ship_date = NoDate
    /\ receive_date = NoDate
    /\ stored = Row("No", FALSE, FALSE, NoDate, NoDate)
    /\ last = Call("none", NoUser, AtUnread, NoDate, "none", "ok")
    /\ requests = NoRequests
    /\ applied = NotApplied
    /\ connector = NoConnector

\* --------------------------------------------------------- date validation
\* Mutant: the comparison with start_date is left out.
BeforeStartDate_Omitted(t) == FALSE
BeforeStartDate(t) == t < Strptime(Strftime(start_date))
\* Mutant: the second comparison repeats the first (start_date for end_date).
BeforeEndDate_StartAgain(t) == t < Strptime(Strftime(start_date))
\* Mutant: the comparison with end_date is left out.
BeforeEndDate_Omitted(t) == FALSE
BeforeEndDate(t) == t < Strptime(Strftime(end_date))

\* File.__validate_time(at, field) with datetime.now() reading `clock`.
validate_time(at, clock) ==
    IF at.kind = "bad" THEN Rejected("ParseError", at, NoDate)
    ELSE LET shipped_at == IF Truthy(at) THEN Strptime(at.day) ELSE clock
             now == IF Truthy(at) THEN NoDate ELSE clock
         IN  IF BeforeStartDate(shipped_at)
             THEN Rejected("BeforeStart", at, now)
             ELSE IF BeforeEndDate(shipped_at)
             THEN Rejected("BeforeEnd", at, now)
             ELSE Accepted(shipped_at, at, now)

\* ----------------------------------------------------------------- ship
\* Mutant: any logged-in user may ship.
ShipPermitted_AnyUser(user) == user # NoUser
ShipPermitted(user) ==
    user # NoUser /\ (user = author_id \/ Role(user) = "admin")

\* Mutant: only a failed validation blocks the shipment.
NotValidated_FailedOnly == validated = "failed"
NotValidated == validated # "success"

\* Mutant: the already-shipped guard is left out.
AlreadyShipped_Omitted == FALSE
\* Mutant: only a file already received counts as already shipped.
AlreadyShipped_OnceReceived == shipped /\ received
AlreadyShipped == shipped

\* Mutant: the validated and shipped guards are tested before the caller.
ShipGuards_StateFirst(user, at, clock) ==
    IF NotValidated THEN Rejected("NotValidated", AtUnread, NoDate)
    ELSE IF AlreadyShipped THEN Rejected("AlreadyShipped", AtUnread, NoDate)
    ELSE IF ~ShipPermitted(user)
    THEN Rejected("PermissionError", AtUnread, NoDate)
    ELSE validate_time(at, clock)

\* The guards of ship_samples in the order the code tests them.
ShipGuards(user, at, clock) ==
    IF ~ShipPermitted(user) THEN Rejected("PermissionError", AtUnread, NoDate)
    ELSE IF NotValidated THEN Rejected("NotValidated", AtUnread, NoDate)
    ELSE IF AlreadyShipped THEN Rejected("AlreadyShipped", AtUnread, NoDate)
    ELSE validate_time(at, clock)

\* File.ship_samples(at) called by `user`; commit_ok: session.commit()
\* returns (TRUE) or raises (FALSE).
ship_samples(user, at, clock, commit_ok) ==
    /\ stored.exists
    /\ LET r == ShipGuards(user, at, clock)
       IN  IF r.err # "none"
           THEN /\ UNCHANGED <<entity, stored>>
                /\ last' = Call("ship", user, r.at, r.now, "none", r.err)
           ELSE /\ shipped' = TRUE
                /\ ship_date' = r.value
                /\ UNCHANGED <<validated, received, receive_date>>
                /\ stored' = IF commit_ok
                             THEN Row(validated, TRUE, received, r.value,
                                      receive_date)
                             ELSE stored
                /\ last' = Call("ship", user, r.at, r.now, "none",
                                IF commit_ok THEN "ok" ELSE "CommitError")
    /\ UNCHANGED <<outside, start_date, end_date, author_id>>

\* -------------------------------------------------------------- receive
\* Mutant: the guard of ship_samples copied (the author may receive too).
ReceivePermitted_AuthorToo(user) ==
    user # NoUser /\ (user = author_id \/ Role(user) = "admin")
ReceivePermitted(user) == user # NoUser /\ Role(user) = "admin"

\* Mutant: the not-shipped guard is left out.
NotShipped_Omitted == FALSE
NotShipped == ~shipped

\* Mutant: the comparison with ship_date is left out.
ReceivedBeforeShipped_Omitted(received_at) == FALSE
\* Mutant: the comparison with ship_date is made by calendar day.
ReceivedBeforeShipped_ByDay(received_at) ==
    Strftime(received_at) < Strftime(ship_date)
ReceivedBeforeShipped(received_at) == received_at < ship_date

\* The guards of shipment_was_received in the order the code tests them.
ReceiveGuards(user, at, clock) ==
    IF ~ReceivePermitted(user)
    THEN Rejected("PermissionError", AtUnread, NoDate)
    ELSE IF NotShipped THEN Rejected("NotShipped", AtUnread, NoDate)
    ELSE LET r == validate_time(at, clock)
         IN  IF r.err # "none" THEN r
             ELSE IF ship_date = NoDate
             THEN Rejected("TypeError", r.at, r.now)
             ELSE IF ReceivedBeforeShipped(r.value)
             THEN Rejected("BeforeShipped", r.at, r.now)
             ELSE r

\* Mutant: received is assigned before the comparison with ship_date, so a
\* call rejected as received before shipped leaves received set.
shipment_was_received_AssignsFirst(user, at, clock, commit_ok) ==
    /\ stored.exists
    /\ LET r == ReceiveGuards(user, at, clock)
       IN  IF r.err # "none"
           THEN /\ received' = (received \/ r.err = "BeforeShipped")
                /\ UNCHANGED <<validated, shipped, ship_date, receive_date,
                               stored>>
                /\ last' = Call("receive", user, r.at, r.now, "none", r.err)
           ELSE /\ received' = TRUE
                /\ receive_date' = r.value
                /\ UNCHANGED <<validated, shipped, ship_date>>
                /\ stored' = IF commit_ok
                             THEN Row(validated, shipped, TRUE, ship_date,
                                      r.value)
                             ELSE stored
                /\ last' = Call("receive", user, r.at, r.now, "none",
                                IF commit_ok THEN "ok" ELSE "CommitError")
    /\ UNCHANGED <<outside, start_date, end_date, author_id>>

\* File.shipment_was_received(at) called by `user`.
shipment_was_received(user, at, clock, commit_ok) ==
    /\ stored.exists
    /\ LET r == ReceiveGuards(user, at, clock)
       IN  IF r.err # "none"
           THEN /\ UNCHANGED <<entity, stored>>
                /\ last' = Call("receive", user, r.at, r.now, "none", r.err)
           ELSE /\ received' = TRUE
                /\ receive_date' = r.value
                /\ UNCHANGED <<validated, shipped, ship_date>>
                /\ stored' = IF commit_ok
                             THEN Row(validated, shipped, TRUE, ship_date,
                                      r.value)
                             ELSE stored
                /\ last' = Call("receive", user, r.at, r.now, "none",
                                IF commit_ok THEN "ok" ELSE "CommitError")
    /\ UNCHANGED <<outside, start_date, end_date, author_id>>

\* --------------------------------------------------------------- remove
\* Mutant: any logged-in user may remove the file.
RemovePermitted_AnyUser(user) == user # NoUser
RemovePermitted(user) ==
    user # NoUser /\ (user = author_id \/ Role(user) = "admin")

\* What GoogleDriveConnector() followed by delete_file(gdrive_id) can do:
\* delete the drive file, raise PermissionError (delete_file turns every
\* failure of the drive call into one), or raise another exception while
\* the connector is constructed (connect / refresh_connection).
DriveOutcomes == {"deleted", "PermissionError", "Exception"}

\* Mutant: remove without its `except PermissionError: pass`; the drive's
\* PermissionError leaves through the finally block.
remove_DriveErrorEscapes(user, drive, commit_ok) ==
    /\ stored.exists
    /\ IF ~RemovePermitted(user)
       THEN /\ stored' = stored
            /\ last' = Call("remove", user, AtUnread, NoDate, "none",
                            "PermissionError")
       ELSE /\ stored' = IF commit_ok THEN [stored EXCEPT !.exists = FALSE]
                         ELSE stored
            /\ last' = Call("remove", user, AtUnread, NoDate, drive,
                            IF ~commit_ok THEN "CommitError"
                            ELSE IF drive = "deleted" THEN "ok" ELSE drive)
    /\ UNCHANGED <<outside, start_date, end_date, author_id, entity>>

\* Mutant: remove with the deletion after the try statement instead of in
\* its finally block; an exception other than PermissionError skips it.
remove_NoFinally(user, drive, commit_ok) ==
    /\ stored.exists
    /\ IF ~RemovePermitted(user)
       THEN /\ stored' = stored
            /\ last' = Call("remove", user, AtUnread, NoDate, "none",
                            "PermissionError")
       ELSE /\ stored' = IF commit_ok /\ drive # "Exception"
                         THEN [stored EXCEPT !.exists = FALSE]
                         ELSE stored
            /\ last' = Call("remove", user, AtUnread, NoDate, drive,
                            IF drive = "Exception" THEN "Exception"
                            ELSE IF ~commit_ok THEN "CommitError"
                            ELSE "ok")
    /\ UNCHANGED <<outside, start_date, end_date, author_id, entity>>

\* File.remove() called by `user`.
remove(user, drive, commit_ok) ==
    /\ stored.exists
    /\ IF ~RemovePermitted(user)
       THEN /\ stored' = stored
            /\ last' = Call("remove", user, AtUnread, NoDate, "none",
                            "PermissionError")
       ELSE /\ stored' = IF commit_ok THEN [stored EXCEPT !.exists = FALSE]
                         ELSE stored
            /\ last' = Call("remove", user, AtUnread, NoDate, drive,
                            IF ~commit_ok THEN "CommitError"
                            ELSE IF drive = "Exception" THEN "Exception"
                            ELSE "ok")
    /\ UNCHANGED <<outside, start_date, end_date, author_id, entity>>

\* ------------------------------------------------------------- validate
\* Mutant: only a file never validated before can pass; a second
\* validation with the same valid report fails.
validate_file_FirstTimeOnly(valid) ==
    /\ stored.exists
    /\ validated' = IF valid /\ validated = "No" THEN "success" ELSE "failed"
    /\ stored' = Row(validated', shipped, received, ship_date, receive_date)
    /\ last' = Call("validate", NoUser, AtUnread, NoDate, "none",
                    IF validated' = "success" THEN "ok" ELSE "failed")
    /\ UNCHANGED <<outside, start_date, end_date, author_id, shipped, received,
                   ship_date, receive_date>>

\* validate_file(file_id): the validator's report decides the status.
validate_file(valid) ==
    /\ stored.exists
    /\ validated' = IF valid THEN "success" ELSE "failed"
    /\ stored' = Row(validated', shipped, received, ship_date, receive_date)
    /\ last' = Call("validate", NoUser, AtUnread, NoDate, "none",
                    IF valid THEN "ok" ELSE "failed")
    /\ UNCHANGED <<outside, start_date, end_date, author_id, shipped, received,
                   ship_date, receive_date>>

\* ------------------------------------------------------------ life cycle
\* A call's arguments and its environment are drawn as far as the call reads
\* them: the `at` argument when the guards before __validate_time pass, a
\* clock reading when `at` is None, the fate of the commit when every guard
\* passes, the drive's answer when remove reaches the drive.
AtArguments(guards) == IF guards.at = AtUnread THEN {AtNone} ELSE AtInputs
ClockReadings(at, times) == IF Truthy(at) THEN {NoDate} ELSE times
CommitFates(reached) == IF reached THEN BOOLEAN ELSE {TRUE}
DriveAnswers(user) == IF RemovePermitted(user) THEN DriveOutcomes ELSE {"none"}

Next ==
    \/ \E valid \in BOOLEAN : validate_file(valid)
    \/ \E user \in Callers :
         \E at \in AtArguments(ShipGuards(user, AtNone, NoDate)) :
           \E clock \in ClockReadings(at, Times) :
             \E commit_ok \in CommitFates(ShipGuards(user, at, clock).err = "none") :
               ship_samples(user, at, clock, commit_ok)
    \/ \E user \in Callers :
         \E at \in AtArguments(ReceiveGuards(user, AtNone, NoDate)) :
           \E clock \in ClockReadings(at, Times) :
             \E commit_ok \in CommitFates(ReceiveGuards(user, at, clock).err = "none") :
               shipment_was_received(user, at, clock, commit_ok)
    \/ \E user \in Callers :
         \E drive \in DriveAnswers(user) :
           \E commit_ok \in CommitFates(RemovePermitted(user)) :
             remove(user, drive, commit_ok)

Spec == Init /\ [][Next]_vars

\* ------------------------------------------------- the scenario of C9
\* A file with start_date 2024-01-01 and end_date 2024-01-10, validated with
\* success; the author ships it with no date, on a day from 2024-01-10 on;
\* an admin then reports it received on 2024-01-05 and then on 2024-01-15.
\* Every commit goes through.
ScenarioDays == 10..20

InitScenario ==
    /\ start_date = Strptime(1)
    /\ end_date = Strptime(10)
    /\ author_id \in Authors
    /\ validated = "No"
    /\ shipped = FALSE
    /\ received = FALSE
    /\ ship_date = NoDate
    /\ receive_date = NoDate
    /\ stored = Row("No", FALSE, FALSE, NoDate, NoDate)
    /\ last = Call("none", NoUser, AtUnread, NoDate, "none", "ok")
    /\ requests = NoRequests
    /\ applied = NotApplied
    /\ connector = NoConnector

ScenarioValidate == last.op = "none" /\ validate_file(TRUE)

ScenarioShip ==
    /\ last.op = "validate"
    /\ \E clock \in ClockOn(ScenarioDays) :
         ship_samples(author_id, AtNone, clock, TRUE)

ScenarioReceiveEarly ==
    /\ last.op = "ship"
    /\ \E admin \in Admins :
         shipment_was_received(admin, AtDate(5), NoDate, TRUE)

ScenarioReceiveLate ==
    /\ last.op = "receive"
    /\ last.at = AtDate(5)
    /\ \E admin \in Admins :
         shipment_was_received(admin, AtDate(15), NoDate, TRUE)

NextScenario ==
    \/ ScenarioValidate
    \/ ScenarioShip
    \/ ScenarioReceiveEarly
    \/ ScenarioReceiveLate

SpecScenario == InitScenario /\ [][NextScenario]_vars

\* ------------------------------------------- two ship calls at once
\* Two requests call ship_samples on the same validated, unshipped File.
\* ship_samples holds no lock and the row has no version column, so a call
\* is three steps other calls can come between: the guards with
\* __validate_time (the reads of shipped among them), the two assignments,
\* and session.commit().
Requests == {1, 2}

\* A request that has not run its guards yet, and one that has.
Called(user, at) ==
    [pc |-> "called", user |-> user, at |-> at,
     guards |-> Rejected("none", AtUnread, NoDate), outcome |-> "none"]
Checked(q, guards) ==
    [q EXCEPT !.pc = IF guards.err = "none" THEN "checked" ELSE "returned",
              !.guards = guards,
              !.outcome = guards.err]

InitShipRace ==
    /\ start_date \in {Strptime(d) : d \in Days}
    /\ end_date \in {Strptime(d) : d \in Days}
    /\ author_id \in Authors
    /\ validated = "success"
    /\ shipped = FALSE
    /\ received = FALSE
    /\ ship_date = NoDate
    /\ receive_date = NoDate
    /\ stored = Row("success", FALSE, FALSE, NoDate, NoDate)
    /\ last = Call("none", NoUser, AtUnread, NoDate, "none", "ok")
    /\ requests \in [Requests -> {Called(user, at) :
                                     user \in Callers, at \in AtInputs}]
    /\ applied = NotApplied
    /\ connector = NoConnector

\* ship_samples, lines 185-192: the permission, validated and shipped
\* guards and __validate_time, on the entity as it is now.
RaceCheck(r) ==
    /\ requests[r].pc = "called"
    /\ \E clock \in ClockReadings(requests[r].at, Times) :
         LET guards == ShipGuards(requests[r].user, requests[r].at, clock)
         IN  /\ requests' = [requests EXCEPT ![r] = Checked(@, guards)]
             /\ last' = IF guards.err = "none" THEN last
                        ELSE Call("ship", requests[r].user, guards.at,
                                  guards.now, "none", guards.err)
    /\ UNCHANGED <<start_date, end_date, author_id, entity, stored, applied, connector>>

\* ship_samples, lines 193-194: self.shipped = True; self.ship_date = ...
RaceWrite(r) ==
    /\ requests[r].pc = "checked"
    /\ shipped' = TRUE
    /\ ship_date' = requests[r].guards.value
    /\ requests' = [requests EXCEPT ![r].pc = "written"]
    /\ UNCHANGED <<start_date, end_date, author_id, validated, received,
                   receive_date, stored, last, applied,
                   connector>>

\* ship_samples, line 195: session.commit() writes the entity as it is.
RaceCommit(r) ==
    /\ requests[r].pc = "written"
    /\ \E commit_ok \in BOOLEAN :
         LET outcome == IF commit_ok THEN "ok" ELSE "CommitError"
         IN  /\ stored' = IF commit_ok
                          THEN Row(validated, shipped, received, ship_date,
                                   receive_date)
                          ELSE stored
             /\ requests' = [requests EXCEPT ![r].pc = "returned",
                                             ![r].outcome = outcome]
             /\ last' = Call("ship", requests[r].user, requests[r].guards.at,
                             requests[r].guards.now, "none", outcome)
    /\ UNCHANGED <<start_date, end_date, author_id, entity, applied, connector>>

NextShipRace ==
    \/ \E r \in Requests : RaceCheck(r)
    \/ \E r \in Requests : RaceWrite(r)
    \/ \E r \in Requests : RaceCommit(r)

SpecShipRace == InitShipRace /\ [][NextShipRace]_vars

\* --------------------------------------------- the spreadsheet modules
\* The functions of ptmd.const.spreadsheets and ptmd.lib.data_extractor
\* work on no File. A call is entered with its input (Entered) and then
\* applied; what it gave is a value returned or an exception raised.
NoValue == "None"
Pending == [raised |-> "pending", value |-> NoValue]
Returned(value) == [raised |-> "none", value |-> value]
Raised(exception) == [raised |-> exception, value |-> NoValue]
Entered(fn, input) == [fn |-> fn, input |-> input, output |-> Pending]
Done == applied.fn # "none" /\ applied.output.raised # "pending"

\* No File is involved: the File's variables stay as they are.
file == <<start_date, end_date, author_id, entity, stored, last, requests>>
NoFile ==
    /\ start_date = NoDate
    /\ end_date = NoDate
    /\ author_id = NoUser
    /\ validated = "No"
    /\ shipped = FALSE
    /\ received = FALSE
    /\ ship_date = NoDate
    /\ receive_date = NoDate
    /\ stored = [Row("No", FALSE, FALSE, NoDate, NoDate) EXCEPT !.exists = FALSE]
    /\ last = Call("none", NoUser, AtUnread, NoDate, "none", "ok")
    /\ requests = NoRequests

\* ------------------------------------------------ extract_empty_columns
\* EXPOSURE_INFORMATION_SCHEMA['properties'] is a dict in insertion order:
\* a sequence of fields, a field named by its place, each with its _role
\* and its _order.
MaxFields == 3
Roles == {"user", "system"}
Orders == 0..(MaxFields + 1)
Properties ==
    UNION {[1..n -> [role : Roles, order : Orders]] : n \in 0..MaxFields}

\* Mutant: the _role test is left out.
IsUserField_AnyRole(schema) == TRUE
IsUserField(schema) == schema.role = "user"

\* fields_map after the first loop has run over the first n properties:
\* a later field with the same _order replaces the earlier one.
RECURSIVE FieldsMap(_, _)
FieldsMap(properties, n) ==
    IF n = 0 THEN [order \in {} |-> 0]
    ELSE LET fields_map == FieldsMap(properties, n - 1)
             schema == properties[n]
         IN  IF IsUserField(schema)
             THEN [order \in DOMAIN fields_map \cup {schema.order} |->
                     IF order = schema.order THEN n ELSE fields_map[order]]
             ELSE fields_map

\* extract_empty_columns(): the second loop reads fields_map[1] to
\* fields_map[len(fields_map)]; a missing key raises KeyError.
extract_empty_columns(properties) ==
    LET fields_map == FieldsMap(properties, Len(properties))
        length == Cardinality(DOMAIN fields_map)
    IN  IF \E i \in 1..length : i \notin DOMAIN fields_map
        THEN Raised("KeyError")
        ELSE Returned([i \in 1..length |-> fields_map[i]])

ExtractEmptyColumns ==
    /\ applied.fn = "extract_empty_columns"
    /\ applied.output.raised = "pending"
    /\ applied' = [applied EXCEPT !.output = extract_empty_columns(applied.input)]
    /\ UNCHANGED <<file, connector>>

\* ------------------------------------- DOSE_MAPPING, TIME_POINT_MAPPING
\* A Python value used as a dict key: its type, its text (str) and its
\* number (int, bool, float: False is 0, True is 1).
PyInt(n) == [type |-> "int", text |-> "", number |-> n]
PyFloat(n) == [type |-> "float", text |-> "", number |-> n]
PyBool(b) == [type |-> "bool", text |-> "", number |-> IF b THEN 1 ELSE 0]
PyStr(text) == [type |-> "str", text |-> text, number |-> 0]
PyNone == [type |-> "NoneType", text |-> "", number |-> 0]

\* Python's == (and hash) on keys: numbers compare by value across int,
\* bool and float; a str equals only the same str.
IsNumber(k) == k.type \in {"int", "bool", "float"}
PyEq(a, b) ==
    IF IsNumber(a) /\ IsNumber(b) THEN a.number = b.number
    ELSE a.type = b.type /\ a.text = b.text

DOSE_MAPPING ==
    (PyInt(0) :> "Z") @@ (PyStr("0") :> "Z") @@ (PyStr("BMD10") :> "L")
      @@ (PyStr("BMD25") :> "M") @@ (PyStr("10mg/L") :> "H")
TIME_POINT_MAPPING ==
    (PyStr("TP0") :> "S") @@ (PyStr("TP1") :> "A") @@ (PyStr("TP2") :> "B")
      @@ (PyStr("TP3") :> "C") @@ (PyStr("TP4") :> "D") @@ (PyStr("TP5") :> "E")

\* Mutant: dict.get(key, "Z") in place of the subscript.
GetItem_WithDefault(table, key) ==
    IF \E k \in DOMAIN table : PyEq(k, key)
    THEN Returned(table[CHOOSE k \in DOMAIN table : PyEq(k, key)])
    ELSE Returned("Z")
\* table[key] on a dict: the value of the key equal to `key`, KeyError when
\* there is none; the dict is left as it is.
GetItem(table, key) ==
    IF \E k \in DOMAIN table : PyEq(k, key)
    THEN Returned(table[CHOOSE k \in DOMAIN table : PyEq(k, key)])
    ELSE Raised("KeyError")

\* The keys looked up: the declared ones and keys next to them.
Keys ==
    DOMAIN DOSE_MAPPING \cup DOMAIN TIME_POINT_MAPPING \cup
    {PyInt(1), PyFloat(0), PyBool(FALSE), PyBool(TRUE), PyNone, PyStr(""),
     PyStr("1"), PyStr("Z"), PyStr("BMD50"), PyStr("bmd10"), PyStr("TP6"),
     PyStr("tp0")}

\* A lookup entered on one of the two tables.
Looking(fn, table, key) ==
    [fn |-> fn, input |-> key, output |-> Pending, table |-> table]

Lookup ==
    /\ applied.fn \in {"DOSE_MAPPING", "TIME_POINT_MAPPING"}
    /\ applied.output.raised = "pending"
    /\ applied' = [applied EXCEPT !.output = GetItem(applied.table, applied.input)]
    /\ UNCHANGED <<file, connector>>

\* ------------------------------------------ extract_data_from_spreadsheet
MaxRows == 3
MaxTimepoints == 3

\* Chemical names of a sheet; the chemicals in the database; the hours of
\* a sheet; the Timepoints already in the database.
Names == {"X", "Y", "Z"}
KnownChemicals == {"X", "Y"}
Hours == {0, 24, 48}
KnownTimepoints == {0}

Range(list) == {list[i] : i \in DOMAIN list}
Lists(values, n) == UNION {[1..k -> values] : k \in 0..n}

\* The text of a list of hours as json writes it, token by token.
Numeral(hour) == CASE hour = 0 -> "0" [] hour = 24 -> "24" [] hour = 48 -> "48"
RECURSIVE Joined(_)
Joined(list) ==
    IF list = <<>> THEN <<>>
    ELSE IF Len(list) = 1 THEN <<Numeral(list[1])>>
    ELSE <<Numeral(list[1]), ",">> \o Joined(Tail(list))
JsonText(list) == <<"[">> \o Joined(list) \o <<"]">>

\* json_loads(text) for the text of a list, whole or damaged: the brackets,
\* then numerals with a comma between each two.
IsNumeral(token) == \E hour \in Hours : Numeral(hour) = token
NumeralValue(token) == CHOOSE hour \in Hours : Numeral(hour) = token
json_loads(text) ==
    LET inner == SubSeq(text, 2, Len(text) - 1)
        wellFormed ==
            /\ Len(text) >= 2
            /\ text[1] = "["
            /\ text[Len(text)] = "]"
            /\ inner # <<>> => Len(inner) % 2 = 1
            /\ \A i \in DOMAIN inner :
                 IF i % 2 = 1 THEN IsNumeral(inner[i]) ELSE inner[i] = ","
    IN  IF wellFormed
        THEN Returned([i \in 1..((Len(inner) + 1) \div 2) |->
                         NumeralValue(inner[2 * i - 1])])
        ELSE Raised("JSONDecodeError")

\* The `timepoints` cell of a sheet: the text of a list, or a damaged one.
TimepointsTexts ==
    {JsonText(list) : list \in Lists(Hours, MaxTimepoints)}
      \cup {<<>>, <<"[">>, <<"[", "0", ",", "]">>}

\* A row of the "General Information" sheet, by column; one without its
\* timepoints column.
GeneralInformationRow(timepoints) ==
    [replicates |-> 4, control |-> 2, blanks |-> 1,
     compound_vehicle |-> "DMSO", timepoints |-> timepoints,
     biosystem_name |-> "Daphnia_magna", exposure_batch |-> "AA",
     partner_id |-> "UOB", exposure_batch_startdate |-> "2024-01-01",
     exposure_batch_enddate |-> "2024-01-10"]
RowWithoutTimepoints ==
    [replicates |-> 4, control |-> 2, blanks |-> 1,
     compound_vehicle |-> "DMSO",
     biosystem_name |-> "Daphnia_magna", exposure_batch |-> "AA",
     partner_id |-> "UOB", exposure_batch_startdate |-> "2024-01-01",
     exposure_batch_enddate |-> "2024-01-10"]

\* A spreadsheet: the records of its "General Information" sheet and the
\* compound_name column of its "Exposure information" sheet.
Spreadsheets ==
    {[general |-> general, compound_name |-> column] :
       general \in {<<>>, <<RowWithoutTimepoints>>}
                     \cup {<<GeneralInformationRow(text)>> :
                             text \in TimepointsTexts},
       column \in Lists(Names, MaxRows)}

\* Mutant: an empty sheet gives a row of defaults.
FirstRecord_DefaultWhenEmpty(records) ==
    IF records = <<>> THEN Returned(GeneralInformationRow(JsonText(<<>>)))
    ELSE Returned(records[1])
\* file_handler.parse(...).to_dict(orient='records')[0]
FirstRecord(records) ==
    IF records = <<>> THEN Raised("IndexError") ELSE Returned(records[1])

\* Mutant: list(column), every cell in its place.
ListOfSet_EveryCell(column) == {column}
\* list(set(column)): the distinct cells, each once, in an order the set
\* decides.
ListOfSet(column) ==
    {list \in [1..Cardinality(Range(column)) -> Range(column)] :
       \A i, j \in DOMAIN list : list[i] = list[j] => i = j}

\* create_timepoints_hours(hours): a Timepoint for each hour of the list,
\* those not in the database yet being created.
create_timepoints_hours(hours, timepoints) ==
    [output |-> Returned([i \in DOMAIN hours |-> [timepoint |-> hours[i]]]),
     timepoints |-> timepoints \cup Range(hours)]

\* get_chemicals_from_name(names): the chemical of each name; a name not in
\* the database is an error.
get_chemicals_from_name(names) ==
    IF \E i \in DOMAIN names : names[i] \notin KnownChemicals
    THEN Raised("NotFound")
    ELSE Returned([i \in DOMAIN names |-> [chemical |-> names[i]]])

\* A call of extract_data_from_spreadsheet entered on a sheet: what the two
\* collaborators were called with so far, and the Timepoints in the database.
Extracting(sheet) ==
    [fn |-> "extract_data_from_spreadsheet", input |-> sheet,
     output |-> Pending, hours_calls |-> <<>>, names_calls |-> <<>>,
     timepoints |-> KnownTimepoints]

\* extract_data_from_spreadsheet(filepath) on the sheet entered, `names`
\* being the list list(set(...)) gave: the state of the call when it ends.
extract_data_from_spreadsheet(call, names) ==
    LET sheet == call.input
        first == FirstRecord(sheet.general)
        general_information == first.value
    IN  IF first.raised # "none" THEN [call EXCEPT !.output = first]
        ELSE IF "timepoints" \notin DOMAIN general_information
        THEN [call EXCEPT !.output = Raised("KeyError")]
        ELSE LET timepoints_values == json_loads(general_information.timepoints)
             IN  IF timepoints_values.raised # "none"
                 THEN [call EXCEPT !.output = timepoints_values]
                 ELSE LET created == create_timepoints_hours(
                                         timepoints_values.value, call.timepoints)
                          chemicals == get_chemicals_from_name(names)
                          withCalls ==
                              [call EXCEPT
                                 !.hours_calls = Append(@, timepoints_values.value),
                                 !.timepoints = created.timepoints,
                                 !.names_calls = Append(@, names)]
                      IN  IF chemicals.raised # "none"
                          THEN [withCalls EXCEPT !.output = chemicals]
                          ELSE [withCalls EXCEPT !.output = Returned(
                            [replicates |-> general_information.replicates,
                             controls |-> general_information.control,
                             blanks |-> general_information.blanks,
                             vehicle_name |-> general_information.compound_vehicle,
                             timepoints |-> created.output.value,
                             chemicals |-> chemicals.value,
                             organism_name |-> general_information.biosystem_name,
                             batch |-> general_information.exposure_batch,
                             organisation_name |-> general_information.partner_id,
                             start_date |-> general_information.exposure_batch_startdate,
                             end_date |-> general_information.exposure_batch_enddate])]

ExtractData ==
    /\ applied.fn = "extract_data_from_spreadsheet"
    /\ applied.output.raised = "pending"
    /\ \E names \in ListOfSet(applied.input.compound_name) :
         applied' = extract_data_from_spreadsheet(applied, names)
    /\ UNCHANGED <<file, connector>>

InitSheets ==
    /\ NoFile
    /\ connector = NoConnector
    /\ \/ applied \in {Entered("extract_empty_columns", properties) :
                          properties \in Properties}
       \/ applied \in {Looking("DOSE_MAPPING", DOSE_MAPPING, key) :
                          key \in Keys}
       \/ applied \in {Looking("TIME_POINT_MAPPING", TIME_POINT_MAPPING, key) :
                          key \in Keys}
       \/ applied \in {Extracting(sheet) : sheet \in Spreadsheets}

NextSheets ==
    \/ ExtractEmptyColumns
    \/ Lookup
    \/ ExtractData

SpecSheets == InitSheets /\ [][NextSheets]_vars

\* ------------------------------------------------- GoogleDriveConnector
MaxConstructions == 4

\* What a method of the connector leaves: the class attributes after it and
\* the value it returned or the exception it raised.
Leaves(c, output) == [connector |-> c, output |-> output]

\* GoogleDrive(self.__google_auth): a new drive handle.
NewDrive(c) == [c EXCEPT !.google_drive = c.handles + 1, !.handles = @ + 1]

\* connect(): one of LocalWebserverAuth, Refresh and Authorize, by the
\* credentials and the token; auth_ok: that call returns (TRUE) or raises.
connect(c, credentials, expired, auth_ok) ==
    LET ran == [c EXCEPT !.connects = @ + 1]
    IN  IF auth_ok THEN Leaves(NewDrive(ran), Returned(NoValue))
        ELSE Leaves(ran, Raised(IF ~credentials THEN "AuthenticationError"
                                ELSE IF expired THEN "RefreshError"
                                ELSE "AuthenticationError"))

\* Mutant: the drive handle is replaced on every refresh_connection.
refresh_connection_Always(c, expired, auth_ok) ==
    LET ran == [c EXCEPT !.refreshes = @ + 1]
    IN  IF ~c.google_auth THEN Leaves(ran, Raised("AttributeError"))
        ELSE IF expired /\ ~auth_ok THEN Leaves(ran, Raised("RefreshError"))
        ELSE Leaves(NewDrive(ran), Returned(NoValue))
\* refresh_connection(): Refresh and a new handle when the token has
\* expired; __google_auth is missing when GoogleAuth(...) raised in the
\* first construction.
refresh_connection(c, expired, auth_ok) ==
    LET ran == [c EXCEPT !.refreshes = @ + 1]
    IN  IF ~c.google_auth THEN Leaves(ran, Raised("AttributeError"))
        ELSE IF ~expired THEN Leaves(ran, Returned(NoValue))
        ELSE IF ~auth_ok THEN Leaves(ran, Raised("RefreshError"))
        ELSE Leaves(NewDrive(ran), Returned(NoValue))

\* GoogleDriveConnector.__new__(cls); settings_ok: GoogleAuth(settings_file)
\* returns (TRUE) or raises.
GoogleDriveConnector_new(c, settings_ok, credentials, expired, auth_ok) ==
    IF c.instance_ = NoInstance
    THEN LET made == [c EXCEPT !.instance_ = c.objects + 1, !.objects = @ + 1]
             connected == connect([made EXCEPT !.google_auth = TRUE],
                                  credentials, expired, auth_ok)
         IN  IF ~settings_ok THEN Leaves(made, Raised("InvalidConfigError"))
             ELSE IF connected.output.raised # "none" THEN connected
             ELSE Leaves(connected.connector,
                         Returned(connected.connector.instance_))
    ELSE LET refreshed == refresh_connection(c, expired, auth_ok)
         IN  IF refreshed.output.raised # "none" THEN refreshed
             ELSE Leaves(refreshed.connector,
                         Returned(refreshed.connector.instance_))

\* A construction GoogleDriveConnector(), the auth object having
\* credentials or not and its token being expired or not. The instance a
\* construction returns is kept apart from what it raised.
Construct ==
    /\ connector.constructions < MaxConstructions
    /\ \E settings_ok, credentials, expired, auth_ok \in BOOLEAN :
         LET left == GoogleDriveConnector_new(connector, settings_ok,
                                              credentials, expired, auth_ok)
         IN  /\ connector' = [left.connector EXCEPT !.constructions = @ + 1]
             /\ applied' = [fn |-> "GoogleDriveConnector",
                            input |-> [credentials |-> credentials,
                                       expired |-> expired],
                            output |-> [left.output EXCEPT !.value = NoValue],
                            instance |->
                                IF left.output.raised = "none"
                                THEN left.output.value ELSE NoInstance]
    /\ UNCHANGED file

\* The ids of drive files, and what the drive does with a delete:
\* CreateFile(...).Delete() returns, or one of the two calls raises.
FileIds == {"123", "1a2b"}
DriveFates == {"deleted", "CreateFileRaises", "DeleteRaises"}

\* The message of delete_file's PermissionError, an f-string around the id.
UnableToDelete(file_id) ==
    <<"Unable to delete file ", file_id,
      " from Google Drive. This is probably because it is an external file.">>

\* What goes wrong inside the try block of delete_file ("none": nothing): a
\* connector that never got a drive handle has no google_drive to call.
DriveFailure(c, fate) ==
    IF c.google_drive = NoDrive THEN "AttributeError"
    ELSE IF fate = "CreateFileRaises" THEN "InvalidConfigError"
    ELSE IF fate = "DeleteRaises" THEN "ApiRequestError"
    ELSE "none"

\* Mutant: only errors of the drive's API are caught.
delete_file_ApiErrorsOnly(c, file_id, fate) ==
    LET failure == DriveFailure(c, fate)
    IN  IF failure = "none"
        THEN [output |-> Returned(file_id), message |-> <<>>]
        ELSE IF failure = "ApiRequestError"
        THEN [output |-> Raised("PermissionError"),
              message |-> UnableToDelete(file_id)]
        ELSE [output |-> Raised(failure), message |-> <<>>]
\* delete_file(file_id): the id, or PermissionError for every Exception.
delete_file(c, file_id, fate) ==
    IF DriveFailure(c, fate) = "none"
    THEN [output |-> Returned(file_id), message |-> <<>>]
    ELSE [output |-> Raised("PermissionError"),
          message |-> UnableToDelete(file_id)]

\* A call of delete_file on the instance.
DeleteFile ==
    /\ connector.instance_ # NoInstance
    /\ \E file_id \in FileIds, fate \in DriveFates :
         LET left == delete_file(connector, file_id, fate)
         IN  applied' = [fn |-> "delete_file", input |-> file_id,
                         failure |-> DriveFailure(connector, fate),
                         output |-> left.output, message |-> left.message]
    /\ UNCHANGED <<file, connector>>

InitDrive ==
    /\ NoFile
    /\ applied = NotApplied
    /\ connector = NoConnector

NextDrive ==
    \/ Construct
    \/ DeleteFile

SpecDrive == InitDrive /\ [][NextDrive]_vars

\* --------------------------------- create_chemicals, create_organisms
MaxItems == 3

\* An item of the input list: the value of its key field (common_name of a
\* chemical, ptox_biosystem_name of an organism) and whether the model's
\* constructor accepts it. With each item goes the fate of its commit.
ItemKeys == {"a", "b"}
Items == [key : ItemKeys, valid : BOOLEAN]
Batches ==
    UNION {[items : [1..n -> Items], commits : [1..n -> BOOLEAN]] :
             n \in 0..MaxItems}

\* Mutant: a failing commit is not noticed.
Created_CommitUnchecked(item, commit_ok) == item.valid
\* The try block of the loop runs to its end: the constructor, session.add
\* and session.commit() all return.
Created(item, commit_ok) == item.valid /\ commit_ok

\* The loop after the first n items (an item is named by its place): the
\* mapping built, the rows committed, the items attempted, the rollbacks.
RECURSIVE CreateLoop(_, _)
CreateLoop(batch, n) ==
    IF n = 0
    THEN [in_database |-> [key \in {} |-> 0], rows |-> {}, attempted |-> {},
          rollbacks |-> 0]
    ELSE LET before == CreateLoop(batch, n - 1)
             item == batch.items[n]
         IN  IF Created(item, batch.commits[n])
             THEN [before EXCEPT
                     !.in_database =
                         [key \in DOMAIN before.in_database \cup {item.key} |->
                            IF key = item.key THEN n
                            ELSE before.in_database[key]],
                     !.rows = @ \cup {n},
                     !.attempted = @ \cup {n}]
             ELSE [before EXCEPT !.attempted = @ \cup {n},
                                 !.rollbacks = @ + 1]

\* create_chemicals(chemicals, session) and create_organisms(organisms,
\* session): the same loop, on common_name and on ptox_biosystem_name.
create_chemicals(batch) == CreateLoop(batch, Len(batch.items))
create_organisms(batch) == CreateLoop(batch, Len(batch.items))

\* A call entered on a batch, and the call ended.
Creating(fn, batch) ==
    [fn |-> fn, input |-> batch, output |-> Pending, rows |-> {},
     attempted |-> {}, rollbacks |-> 0]
Ended(call, left) ==
    [call EXCEPT !.output = Returned(left.in_database),
                 !.rows = left.rows,
                 !.attempted = left.attempted,
                 !.rollbacks = left.rollbacks]

CreateChemicals ==
    /\ applied.fn = "create_chemicals"
    /\ applied.output.raised = "pending"
    /\ applied' = Ended(applied, create_chemicals(applied.input))
    /\ UNCHANGED <<file, connector>>

CreateOrganisms ==
    /\ applied.fn = "create_organisms"
    /\ applied.output.raised = "pending"
    /\ applied' = Ended(applied, create_organisms(applied.input))
    /\ UNCHANGED <<file, connector>>

InitBulk ==
    /\ NoFile
    /\ connector = NoConnector
    /\ \/ applied \in {Creating("create_chemicals", batch) : batch \in Batches}
       \/ applied \in {Creating("create_organisms", batch) : batch \in Batches}

NextBulk ==
    \/ CreateChemicals
    \/ CreateOrganisms

SpecBulk == InitBulk /\ [][NextBulk]_vars

\* ----------------------------------------------------------------- claims
\* A step of the named operation: every call records itself in `last`, and a
\* call that leaves `last` as it was leaves everything as it was.
ShipStep == last' # last /\ last'.op = "ship"
ReceiveStep == last' # last /\ last'.op = "receive"

\* The callers the claims tell apart.
IsAdmin(user) == user # NoUser /\ Role(user) = "admin"
IsAuthorOrAdmin(user) == user # NoUser /\ (user = author_id \/ IsAdmin(user))

\* C1: in every reachable state a received file has a receive_date that is
\* not earlier than its ship_date, on the entity and in its stored row.
C1_ReceivedNotBeforeShipped ==
    /\ received =>
         /\ ship_date # NoDate
         /\ receive_date # NoDate
         /\ receive_date >= ship_date
    /\ stored.received =>
         /\ stored.ship_date # NoDate
         /\ stored.receive_date # NoDate
         /\ stored.receive_date >= stored.ship_date

\* C1 witness: a receive went through on a file shipped after its end_date.
C1_Witness ==
    /\ received
    /\ last.op = "receive"
    /\ last.outcome = "ok"
    /\ ship_date > end_date
    /\ stored.received

\* C2: in every reachable state ship_date and receive_date, when set, are
\* not earlier than end_date, whether supplied or read from the clock.
C2_DatesNotBeforeEnd ==
    /\ ship_date # NoDate => ship_date >= end_date
    /\ receive_date # NoDate => receive_date >= end_date
    /\ stored.ship_date # NoDate => stored.ship_date >= end_date
    /\ stored.receive_date # NoDate => stored.receive_date >= end_date

\* C2 witness: a shipment with a supplied date was received with no date
\* (the clock's reading), on a file whose end_date is after its start_date.
C2_Witness ==
    /\ ship_date # NoDate
    /\ receive_date # NoDate
    /\ last.op = "receive"
    /\ last.at = AtNone
    /\ last.outcome = "ok"
    /\ receive_date = last.now
    /\ start_date < end_date

\* C3 as stated: every ship attempted on a file whose status is not
\* "success" is rejected with InvalidState and leaves shipped as it was.
C3_Original ==
    [][(ShipStep /\ validated # "success") =>
         (IsInvalidState(last'.outcome) /\ UNCHANGED <<shipped, ship_date>>)]_vars

\* C3 as amended: a ship attempted on a file whose status is not "success"
\* never sets shipped: it is rejected with InvalidState (not validated) when
\* the caller is the author or an admin, with PermissionDenied for any other
\* caller, and shipped and ship_date stay as they were.
C3_NeverShipsUnvalidated ==
    [][(ShipStep /\ validated # "success") =>
         /\ last'.outcome = (IF IsAuthorOrAdmin(last'.user)
                             THEN "NotValidated" ELSE "PermissionError")
         /\ UNCHANGED <<shipped, ship_date, stored>>]_vars

\* C3 witness: the author's ship of a file that failed validation was
\* rejected and the file is unshipped.
C3_Witness ==
    /\ last.op = "ship"
    /\ last.user = author_id
    /\ last.outcome = "NotValidated"
    /\ validated = "failed"
    /\ ~shipped

\* C4 as stated: a ship that follows a successful ship fails with
\* InvalidState whoever calls it.
C4_Original ==
    [][(last.op = "ship" /\ last.outcome = "ok" /\ ShipStep) =>
         IsInvalidState(last'.outcome)]_vars

\* C4 as amended: a ship that follows a successful ship always fails and
\* changes nothing: with InvalidState (already shipped) when the caller is
\* the author or an admin, with PermissionDenied for another user or no user.
C4_SecondShipFails ==
    [][(last.op = "ship" /\ last.outcome = "ok" /\ ShipStep) =>
         /\ last'.outcome = (IF IsAuthorOrAdmin(last'.user)
                             THEN "AlreadyShipped" ELSE "PermissionError")
         /\ UNCHANGED <<entity, stored>>]_vars

\* C4 witness: a ship was rejected as already shipped on a validated file
\* that is shipped in storage and was not touched since.
C4_Witness ==
    /\ last.op = "ship"
    /\ last.outcome = "AlreadyShipped"
    /\ validated = "success"
    /\ stored.shipped
    /\ ~received

\* C5 as stated: a received file is a shipped file, and every receive on an
\* unshipped file is rejected with a ValueError and sets neither received
\* nor receive_date.
C5_Original ==
    [][/\ received' => shipped'
       /\ (ReceiveStep /\ ~shipped) =>
            (IsValueError(last'.outcome) /\ UNCHANGED <<received, receive_date>>)]_vars

\* C5 as amended: a received file is a shipped file, and every receive on an
\* unshipped file is rejected, with the ValueError "not shipped yet" for an
\* admin and with PermissionError for any other caller, and sets neither
\* received nor receive_date.
C5_NeverReceivedBeforeShipped ==
    [][/\ received' => shipped'
       /\ stored'.received => stored'.shipped
       /\ (ReceiveStep /\ ~shipped) =>
            /\ last'.outcome = (IF IsAdmin(last'.user)
                                THEN "NotShipped" ELSE "PermissionError")
            /\ UNCHANGED <<received, receive_date, stored>>]_vars

\* C5 witness: an admin's receive of a validated, unshipped file was
\* rejected as not shipped yet.
C5_Witness ==
    /\ last.op = "receive"
    /\ Role(last.user) = "admin"
    /\ last.outcome = "NotShipped"
    /\ validated = "success"
    /\ ~shipped
    /\ ~received
    /\ receive_date = NoDate

\* C6: a ship that succeeds was called by the author or an admin, and a ship
\* called by anyone else, or by no user, raises PermissionError whatever
\* the state of the file.
C6_ShipNeedsAuthorOrAdmin ==
    last.op = "ship" =>
      /\ last.outcome = "ok" => IsAuthorOrAdmin(last.user)
      /\ ~IsAuthorOrAdmin(last.user) => last.outcome = "PermissionError"

\* C6 witness: an ordinary user who is not the author was refused on a
\* validated, unshipped file.
C6_Witness ==
    /\ last.op = "ship"
    /\ last.user \in UserIds
    /\ last.user # author_id
    /\ Role(last.user) # "admin"
    /\ last.outcome = "PermissionError"
    /\ validated = "success"
    /\ ~shipped

\* C7: a receive that succeeds was called by an admin, and a receive called
\* by anyone else, the author and no user included, raises PermissionError
\* and leaves received as it was.
C7_ReceiveNeedsAdmin ==
    [][ReceiveStep =>
         /\ last'.outcome = "ok" => IsAdmin(last'.user)
         /\ ~IsAdmin(last'.user) =>
              /\ last'.outcome = "PermissionError"
              /\ UNCHANGED <<received, receive_date>>]_vars

\* C7 witness: the author, not an admin, was refused on their own shipped
\* file, which is still not received.
C7_Witness ==
    /\ last.op = "receive"
    /\ last.user = author_id
    /\ Role(author_id) # "admin"
    /\ last.outcome = "PermissionError"
    /\ shipped
    /\ ~received

\* A receive step that an admin's call with the supplied date d explains.
AdminReceiveWith(d) ==
    /\ ReceiveStep
    /\ \E admin \in Admins, commit_ok \in BOOLEAN :
         shipment_was_received(admin, AtDate(d), NoDate, commit_ok)

\* C8 as stated: an admin's receive with a supplied date earlier than
\* end_date fails with OrderingViolation.
C8_Original ==
    [][\A d \in Days :
         (Strptime(d) < end_date /\ AdminReceiveWith(d)) =>
           IsOrderingViolation(last'.outcome)]_vars

\* C8 as amended: on a shipped file an admin's receive with a supplied date
\* earlier than end_date fails with OrderingViolation (before the start or
\* before the end of the experiment) and sets nothing; on an unshipped file
\* it fails with InvalidState (not shipped yet).
C8_EarlyReceiveRejected ==
    [][\A d \in Days :
         (Strptime(d) < end_date /\ AdminReceiveWith(d)) =>
           /\ last'.outcome = (IF ~shipped THEN "NotShipped"
                               ELSE IF Strptime(d) < start_date
                               THEN "BeforeStart" ELSE "BeforeEnd")
           /\ UNCHANGED <<entity, stored>>]_vars

\* C8 witness: an admin's receive of a shipped file with a supplied date
\* between start_date and end_date was rejected as before the end date.
C8_Witness ==
    /\ last.op = "receive"
    /\ Role(last.user) = "admin"
    /\ last.at.kind = "date"
    /\ Strptime(last.at.day) < end_date
    /\ Strptime(last.at.day) >= start_date
    /\ last.outcome = "BeforeEnd"
    /\ shipped
    /\ ~received

\* C9 as stated, under SpecScenario: the author's ship with no date succeeds
\* and sets ship_date to the clock's reading; the admin's receive with
\* 2024-01-05 fails as before the end date; the admin's receive with
\* 2024-01-15 succeeds and sets received.
C9_Original ==
    /\ last.op = "ship" =>
         /\ last.outcome = "ok"
         /\ shipped
         /\ ship_date = last.now
         /\ ship_date >= end_date
    /\ (last.op = "receive" /\ last.at = AtDate(5)) =>
         (last.outcome = "BeforeEnd" /\ ~received)
    /\ (last.op = "receive" /\ last.at = AtDate(15)) =>
         (last.outcome = "ok" /\ received)

\* C9 as amended, under SpecScenario: as stated, except that the receive
\* with 2024-01-15 succeeds (received = true, receive_date = that midnight)
\* when the file was shipped no later than 2024-01-15 00:00, and otherwise
\* fails with OrderingViolation (received before shipped), received unset.
C9_Scenario ==
    /\ last.op = "ship" =>
         /\ last.outcome = "ok"
         /\ shipped
         /\ ship_date = last.now
         /\ ship_date >= end_date
    /\ (last.op = "receive" /\ last.at = AtDate(5)) =>
         (last.outcome = "BeforeEnd" /\ ~received)
    /\ (last.op = "receive" /\ last.at = AtDate(15)) =>
         IF ship_date <= Strptime(15)
         THEN /\ last.outcome = "ok"
              /\ received
              /\ receive_date = Strptime(15)
         ELSE /\ last.outcome = "BeforeShipped"
              /\ ~received
              /\ receive_date = NoDate

\* C9 witness: the scenario ran to its end and the file is received.
C9_Witness ==
    /\ start_date = Strptime(1)
    /\ end_date = Strptime(10)
    /\ last.op = "receive"
    /\ last.at = AtDate(15)
    /\ last.outcome = "ok"
    /\ received
    /\ stored.received

\* C10 as stated: a ship or a receive whose commit fails leaves shipped,
\* ship_date, received and receive_date on the entity as they were before
\* the call.
C10_Claim ==
    [][(last' # last /\ last'.op \in {"ship", "receive"}
          /\ last'.outcome = "CommitError") =>
         UNCHANGED <<shipped, ship_date, received, receive_date>>]_vars

\* A step of remove.
RemoveStep == last' # last /\ last'.op = "remove"

\* C12: a remove by a caller who is neither the file's author nor an admin,
\* or with no current user, raises PermissionDenied, does not reach the
\* drive and leaves the entity and its stored row as they were.
C12_RemoveNeedsAuthorOrAdmin ==
    [][(RemoveStep /\ ~IsAuthorOrAdmin(last'.user)) =>
         /\ IsPermissionDenied(last'.outcome)
         /\ last'.drive = "none"
         /\ UNCHANGED <<entity, stored>>]_vars

\* C12 witness: a remove was refused and the file's row is still stored.
C12_Witness ==
    /\ last.op = "remove"
    /\ ~IsAuthorOrAdmin(last.user)
    /\ last.outcome = "PermissionError"
    /\ stored.exists

\* C13: a remove by the author or an admin whose drive delete raises
\* PermissionError does not raise it: the call attempts the commit of the
\* deletion and, when that commit goes through, returns normally with the
\* file's row deleted.
C13_DrivePermissionErrorAbsorbed ==
    [][(RemoveStep /\ last'.drive = "PermissionError") =>
         /\ IsAuthorOrAdmin(last'.user)
         /\ last'.outcome \in {"ok", "CommitError"}
         /\ last'.outcome = "ok" <=> ~stored'.exists]_vars

\* C13 witness: the drive refused the delete, the call returned normally
\* and the row is gone.
C13_Witness ==
    /\ last.op = "remove"
    /\ last.drive = "PermissionError"
    /\ last.outcome = "ok"
    /\ ~stored.exists

\* The datetime __validate_time compared in the last call, for a call that
\* reached the comparisons: the parsed `at`, or the clock's reading.
ReachedDateChecks ==
    /\ last.op \in {"ship", "receive"}
    /\ last.at \notin {AtUnread, AtBad}
Candidate == IF Truthy(last.at) THEN Strptime(last.at.day) ELSE last.now

\* C14 as stated: for ship and for receive alike, a candidate date is
\* rejected by __validate_time exactly when it is before end_date, and the
\* start_date rejection is never the one raised.
C14_Original ==
    ReachedDateChecks =>
      /\ last.outcome \in {"BeforeStart", "BeforeEnd"} <=> Candidate < end_date
      /\ last.outcome # "BeforeStart"

\* C14 as amended: for ship and for receive alike, a candidate date before
\* start_date is rejected with the start_date error, one from start_date on
\* but before end_date with the end_date error, and every other is accepted:
\* a date is accepted exactly when it is before neither date.
C14_DateRule ==
    ReachedDateChecks =>
      /\ last.outcome = "BeforeStart" <=> Candidate < start_date
      /\ last.outcome = "BeforeEnd" <=>
           (Candidate >= start_date /\ Candidate < end_date)

\* C14 witness: on a file whose end_date is before its start_date, a
\* receive with a date from end_date on was rejected as before start_date.
C14_Witness ==
    /\ end_date < start_date
    /\ last.op = "receive"
    /\ last.at \notin {AtUnread, AtBad}
    /\ Candidate >= end_date
    /\ last.outcome = "BeforeStart"

\* The requests that returned success.
Succeeded == {r \in Requests : requests[r].pc = "returned"
                                 /\ requests[r].outcome = "ok"}

\* C11 as stated, under SpecShipRace: of two ship calls running at once on
\* the same validated, unshipped File, at most one returns success.
C11_Claim == Cardinality(Succeeded) <= 1

\* The user-role fields of a schema, and whether their _order values are
\* the numbers 1..N, each once, N being the number of user-role fields.
UserFields(properties) ==
    {i \in DOMAIN properties : properties[i].role = "user"}
ContiguousOrders(properties) ==
    /\ {properties[i].order : i \in UserFields(properties)}
         = 1..Cardinality(UserFields(properties))
    /\ \A i, j \in UserFields(properties) :
         properties[i].order = properties[j].order => i = j

\* C15, under SpecSheets: on a schema whose user-role fields carry the
\* orders 1..N, extract_empty_columns returns a list of length N whose
\* element at 0-based index i is the user-role field of order i+1; no
\* system-role field is in it.
C15_ColumnsInOrder ==
    (Done /\ applied.fn = "extract_empty_columns"
          /\ ContiguousOrders(applied.input)) =>
      /\ applied.output.raised = "none"
      /\ Len(applied.output.value) = Cardinality(UserFields(applied.input))
      /\ \A i \in DOMAIN applied.output.value :
           /\ applied.output.value[i] \in UserFields(applied.input)
           /\ applied.input[applied.output.value[i]].order = i

\* C15 witness: a schema of two user-role fields given in the order 2, 1
\* with a system-role field between them gave its two columns.
C15_Witness ==
    /\ Done
    /\ applied.fn = "extract_empty_columns"
    /\ Len(applied.input) = 3
    /\ applied.input[1] = [role |-> "user", order |-> 2]
    /\ applied.input[2].role = "system"
    /\ applied.input[3] = [role |-> "user", order |-> 1]
    /\ applied.output.raised = "none"
    /\ applied.output.value = <<3, 1>>

\* C16 as stated, under SpecSheets: on a schema whose user-role orders are
\* not the numbers 1..N each once (a gap, a duplicate, a value outside
\* 1..N), extract_empty_columns raises instead of returning a list.
C16_Claim ==
    (Done /\ applied.fn = "extract_empty_columns"
          /\ ~ContiguousOrders(applied.input)) =>
      applied.output.raised # "none"

\* C17, under SpecSheets: a lookup in the dose table with a key equal to 0,
\* '0', BMD10, BMD25 or 10mg/L gives Z, Z, L, M, H, one in the timepoint
\* table with TP0..TP5 gives S, A, B, C, D, E, a lookup with any other key
\* raises KeyError (no default), and a lookup leaves its table as declared.
\* Keys are equal as Python compares them: 0.0 and False are the key 0.
C17_LookupsTotalAndStrict ==
    LET key == applied.input
        Gives(letter) == applied.output = Returned(letter)
    IN  /\ (Done /\ applied.fn = "DOSE_MAPPING") =>
             /\ applied.table = DOSE_MAPPING
             /\ IF IsNumber(key) /\ key.number = 0 THEN Gives("Z")
                ELSE IF key = PyStr("0") THEN Gives("Z")
                ELSE IF key = PyStr("BMD10") THEN Gives("L")
                ELSE IF key = PyStr("BMD25") THEN Gives("M")
                ELSE IF key = PyStr("10mg/L") THEN Gives("H")
                ELSE applied.output = Raised("KeyError")
        /\ (Done /\ applied.fn = "TIME_POINT_MAPPING") =>
             /\ applied.table = TIME_POINT_MAPPING
             /\ IF key = PyStr("TP0") THEN Gives("S")
                ELSE IF key = PyStr("TP1") THEN Gives("A")
                ELSE IF key = PyStr("TP2") THEN Gives("B")
                ELSE IF key = PyStr("TP3") THEN Gives("C")
                ELSE IF key = PyStr("TP4") THEN Gives("D")
                ELSE IF key = PyStr("TP5") THEN Gives("E")
                ELSE applied.output = Raised("KeyError")

\* C17 witness: a lookup of a dose key in the timepoint table failed.
C17_Witness ==
    /\ Done
    /\ applied.fn = "TIME_POINT_MAPPING"
    /\ applied.input = PyStr("BMD10")
    /\ applied.output.raised = "KeyError"

\* A call of extract_data_from_spreadsheet that has ended.
Extracted == Done /\ applied.fn = "extract_data_from_spreadsheet"

\* C18, under SpecSheets: the name-resolution collaborator is called at
\* most once and receives each distinct compound_name of the sheet exactly
\* once; the hours collaborator is called at most once and receives the
\* list of integers the timepoints text is the serialization of; a record
\* returned has one chemical for each distinct name and one timepoint
\* reference for each element of the decoded list.
C18_DistinctNamesAndDecodedHours ==
    Extracted =>
      LET column == applied.input.compound_name
      IN  /\ Len(applied.names_calls) <= 1
          /\ Len(applied.hours_calls) <= 1
          /\ \A c \in DOMAIN applied.names_calls :
               /\ Range(applied.names_calls[c]) = Range(column)
               /\ Len(applied.names_calls[c]) = Cardinality(Range(column))
          /\ \A c \in DOMAIN applied.hours_calls :
               /\ Range(applied.hours_calls[c]) \subseteq Hours
               /\ JsonText(applied.hours_calls[c])
                    = applied.input.general[1].timepoints
          /\ applied.output.raised = "none" =>
               /\ Len(applied.names_calls) = 1
               /\ Len(applied.hours_calls) = 1
               /\ Len(applied.output.value.chemicals)
                    = Cardinality(Range(column))
               /\ Len(applied.output.value.timepoints)
                    = Len(applied.hours_calls[1])

\* C18 witness: the sheet with timepoints "[0,24,48]" and the names X, X, Y
\* gave a record of 2 chemicals and 3 timepoint references.
C18_Witness ==
    /\ Extracted
    /\ applied.input.compound_name = <<"X", "X", "Y">>
    /\ applied.input.general # <<>>
    /\ "timepoints" \in DOMAIN applied.input.general[1]
    /\ applied.input.general[1].timepoints
         = <<"[", "0", ",", "24", ",", "48", "]">>
    /\ applied.hours_calls = <<(<<0, 24, 48>>)>>
    /\ applied.output.raised = "none"
    /\ Len(applied.output.value.chemicals) = 2
    /\ Len(applied.output.value.timepoints) = 3

\* The keys of an Extraction Record.
ExtractionRecordFields ==
    {"replicates", "controls", "blanks", "vehicle_name", "timepoints",
     "chemicals", "organism_name", "batch", "organisation_name",
     "start_date", "end_date"}

\* C19, under SpecSheets: a call of extract_data_from_spreadsheet either
\* returns a record with all eleven fields or raises and returns nothing;
\* it raises on an empty general-information sheet and on a sheet with a
\* chemical name the database does not know.
C19_CompleteRecordOrError ==
    Extracted =>
      /\ IF applied.output.raised = "none"
         THEN /\ DOMAIN applied.output.value = ExtractionRecordFields
              /\ Cardinality(DOMAIN applied.output.value) = 11
         ELSE applied.output.value = NoValue
      /\ applied.input.general = <<>> => applied.output.raised # "none"
      /\ (\E name \in Range(applied.input.compound_name) :
            name \notin KnownChemicals) => applied.output.raised # "none"

\* C19 witness: an empty general-information sheet made the call raise.
C19_Witness ==
    /\ Extracted
    /\ applied.input.general = <<>>
    /\ applied.output.raised = "IndexError"

C24_RejectedCallChangesNothing ==
    [][((ShipStep \/ ReceiveStep)
          /\ (\/ IsPermissionDenied(last'.outcome)
              \/ IsInvalidState(last'.outcome)
              \/ IsOrderingViolation(last'.outcome))) =>
         UNCHANGED <<validated, shipped, received, ship_date, receive_date,
                     stored>>]_vars

\* C24 witness: a receive on a shipped file was rejected as received before
\* shipped, and the file is still not received.
C24_Witness ==
    /\ last.op = "receive"
    /\ last.outcome = "BeforeShipped"
    /\ shipped
    /\ ~received
    /\ ~stored.received

\* C25: once shipped is true it stays true and ship_date stays as it is;
\* once received is true it stays true.
C25_FlagsMonotonic ==
    [][/\ shipped => (shipped' /\ ship_date' = ship_date)
       /\ received => received']_vars

\* C25 witness: a ship was attempted on a file already shipped and a
\* receive has gone through.
C25_Witness ==
    /\ shipped
    /\ received
    /\ last.op = "ship"
    /\ last.outcome = "AlreadyShipped"

\* C26 as stated: on a File with received = true, a further
\* shipment_was_received leaves receive_date as it was.
C26_Claim ==
    [][(received /\ ReceiveStep) => receive_date' = receive_date]_vars

\* C27 as stated: after a ship with no date that went through (ship_date
\* is the clock's reading, on calendar day D), a receive by an admin with
\* the date D, its commit going through, succeeds and sets received.
C27_Claim ==
    [][\A admin \in Admins :
         (/\ last.op = "ship"
          /\ last.at = AtNone
          /\ last.outcome = "ok"
          /\ shipment_was_received(admin, AtDate(Strftime(ship_date)),
                                   NoDate, TRUE)) =>
           (last'.outcome = "ok" /\ received')]_vars

\* The date __validate_time compares in the call recorded in last', and how
\* the date checks of a call that reached them must end.
CandidateNext == IF Truthy(last'.at) THEN Strptime(last'.at.day) ELSE last'.now
DateOutcome(then) ==
    IF last'.at = AtBad THEN last'.outcome = "ParseError"
    ELSE IF CandidateNext < start_date THEN last'.outcome = "BeforeStart"
    ELSE IF CandidateNext < end_date THEN last'.outcome = "BeforeEnd"
    ELSE then

\* C28: the failure a ship reports is the first that applies of: caller
\* not permitted, file not validated, file already shipped, date rejected;
\* the failure a receive reports is the first that applies of: caller not
\* admin, file not shipped, date before start or end date, date before
\* ship_date.
C28_GuardPrecedence ==
    [][/\ ShipStep =>
            IF ~IsAuthorOrAdmin(last'.user)
            THEN last'.outcome = "PermissionError"
            ELSE IF validated # "success" THEN last'.outcome = "NotValidated"
            ELSE IF shipped THEN last'.outcome = "AlreadyShipped"
            ELSE DateOutcome(last'.outcome \in {"ok", "CommitError"})
       /\ ReceiveStep =>
            IF ~IsAdmin(last'.user) THEN last'.outcome = "PermissionError"
            ELSE IF ~shipped THEN last'.outcome = "NotShipped"
            ELSE DateOutcome(
                   IF CandidateNext < ship_date
                   THEN last'.outcome = "BeforeShipped"
                   ELSE last'.outcome \in {"ok", "CommitError"})]_vars

\* C28 witness: a ship by a caller who is not permitted, on a file that is
\* not validated, was reported as a permission failure.
C28_Witness ==
    /\ last.op = "ship"
    /\ ~IsAuthorOrAdmin(last.user)
    /\ validated # "success"
    /\ last.outcome = "PermissionError"

\* C29: a remove by the author or an admin whose commit goes through
\* deletes the file's row whatever the drive did: the drive file deleted
\* (the call returns), PermissionError from the drive (absorbed, the call
\* returns), another exception (it reaches the caller after the deletion).
C29_RemoveDeletesOnEveryPath ==
    [][(RemoveStep /\ IsAuthorOrAdmin(last'.user)) =>
         /\ last'.drive \in DriveOutcomes
         /\ last'.outcome \in {"ok", "Exception", "CommitError"}
         /\ last'.outcome = "Exception" => last'.drive = "Exception"
         /\ last'.outcome = "ok" => last'.drive \in {"deleted", "PermissionError"}
         /\ last'.outcome # "CommitError" => ~stored'.exists]_vars

\* C29 witness: the drive raised another exception, it reached the caller
\* and the row is gone.
C29_Witness ==
    /\ last.op = "remove"
    /\ last.drive = "Exception"
    /\ last.outcome = "Exception"
    /\ ~stored.exists

\* C30 as stated, under SpecSheets: an extraction that aborts because a
\* chemical name is not resolved has created no Timepoint: the Timepoints
\* in the database are those that were there before the call.
C30_Claim ==
    (Extracted /\ applied.output.raised = "NotFound") =>
      applied.timepoints = KnownTimepoints

\* A construction of the connector.
ConstructStep ==
    /\ connector'.constructions = connector.constructions + 1
    /\ applied'.fn = "GoogleDriveConnector"

\* C21, under SpecDrive: one object is ever made and every construction
\* that returns gives it; connect() runs in the first construction only; a
\* later construction runs refresh_connection once and nothing else, and
\* the drive handle is replaced in it only when the token has expired.
C21_Singleton ==
    [][ConstructStep =>
         /\ connector'.objects = 1
         /\ connector'.instance_ = 1
         /\ applied'.output.raised = "none" => applied'.instance = 1
         /\ IF connector.instance_ = NoInstance
            THEN /\ connector'.refreshes = connector.refreshes
                 /\ connector'.connects <= 1
            ELSE /\ connector'.instance_ = connector.instance_
                 /\ connector'.connects = connector.connects
                 /\ connector'.refreshes = connector.refreshes + 1
                 /\ connector'.google_drive # connector.google_drive =>
                      applied'.input.expired]_vars

\* C21 witness: after three constructions connect() has run once,
\* refresh_connection twice, the handle was replaced in one of the two and
\* the last construction returned the one instance.
C21_Witness ==
    /\ connector.constructions = 3
    /\ connector.connects = 1
    /\ connector.refreshes = 2
    /\ connector.handles = 2
    /\ applied.fn = "GoogleDriveConnector"
    /\ applied.output.raised = "none"
    /\ applied.instance = 1

\* C22, under SpecDrive: delete_file returns the id it was given when
\* nothing fails in the drive call, and raises PermissionError with the
\* message 'Unable to delete file <id> from Google Drive. This is probably
\* because it is an external file.' for every failure, a missing drive
\* handle included; nothing else leaves it.
C22_DeleteFileErrors ==
    applied.fn = "delete_file" =>
      IF applied.failure = "none"
      THEN applied.output = Returned(applied.input)
      ELSE /\ applied.output = Raised("PermissionError")
           /\ applied.message =
                <<"Unable to delete file ", applied.input,
                  " from Google Drive. This is probably because it is an external file.">>

\* C22 witness: delete_file on a connector without a drive handle raised
\* PermissionError.
C22_Witness ==
    /\ applied.fn = "delete_file"
    /\ connector.google_drive = NoDrive
    /\ applied.failure = "AttributeError"
    /\ applied.output.raised = "PermissionError"

\* A bulk creation that has ended, and the items of its input whose
\* construction and commit both went through.
BulkCreated == Done /\ applied.fn \in {"create_chemicals", "create_organisms"}
Committed ==
    {n \in DOMAIN applied.input.items :
       applied.input.items[n].valid /\ applied.input.commits[n]}

\* C23 as stated, under SpecBulk: a bulk creation returns without raising,
\* attempts every item, rolls back each item that fails to construct or to
\* commit, and returns a mapping that contains exactly the items committed.
C23_Original ==
    BulkCreated =>
      /\ applied.output.raised = "none"
      /\ applied.attempted = DOMAIN applied.input.items
      /\ applied.rows = Committed
      /\ applied.rollbacks = Len(applied.input.items) - Cardinality(Committed)
      /\ Range(applied.output.value) = Committed

\* C23 as amended: as stated, except that the mapping is keyed by name: it
\* holds, for each name of a committed item, the last item committed under
\* that name; it contains exactly the committed items when their names
\* differ, and is empty when no item was committed.
C23_FailuresIsolated ==
    BulkCreated =>
      LET in_database == applied.output.value
          items == applied.input.items
      IN  /\ applied.output.raised = "none"
          /\ applied.attempted = DOMAIN items
          /\ applied.rows = Committed
          /\ applied.rollbacks = Len(items) - Cardinality(Committed)
          /\ DOMAIN in_database = {items[n].key : n \in Committed}
          /\ \A key \in DOMAIN in_database :
               /\ in_database[key] \in Committed
               /\ items[in_database[key]].key = key
               /\ \A n \in Committed :
                    items[n].key = key => n <= in_database[key]
          /\ (\A m, n \in Committed : items[m].key = items[n].key => m = n)
               => Range(in_database) = Committed
          /\ Committed = {} => DOMAIN in_database = {}

\* C23 witness: of three items the first did not construct and the second
\* did not commit; the third was still attempted and is the one returned.
C23_Witness ==
    /\ BulkCreated
    /\ Len(applied.input.items) = 3
    /\ ~applied.input.items[1].valid
    /\ applied.input.items[2].valid
    /\ ~applied.input.commits[2]
    /\ Committed = {3}
    /\ applied.rollbacks = 2
    /\ Range(applied.output.value) = {3}

====
